---- MODULE Spec2Model ----
(***************************************************************************)
(* SeaSocks Server (src/src/main/c/server.cpp): the reactor loop of       *)
(* Server::serve, the cross-thread task queue (schedule /                 *)
(* popNextRunnable), the connection registry (_connections), the epoll    *)
(* interest set, the wake-up pipe, the lame-connection reap and ~Server.  *)
(*                                                                         *)
(* Threads are sequential: tpc[t] is what host thread t is doing, and the *)
(* thread with tpc[t] = "serve" is the reactor, whose position inside     *)
(* Server::serve is rpc.  Each call of time(NULL), accept, epoll_wait,    *)
(* epoll_ctl and read takes its result as an input of the action.         *)
(***************************************************************************)
EXTENDS Integers, Sequences, FiniteSets, TLC

\* ------------------------------------------------------------------ bounds
NumThreads == 3
MaxConns == 2
MaxTasks == 3
MaxTime == 2
MaxServes == 2
MaxTerminateCalls == 1
PipeCapacity == 2
MaxBytes == 1
\* The workload of the specifications with tasks and connections (Spec, SpecRestart).
FewConns == 1
FewTasks == 1
\* serve() calls of every specification but the one that calls serve() again.
FewServes == 1

Threads == 1..NumThreads
Conns == 1..MaxConns
Tasks == 1..MaxTasks

\* ------------------------------------------------------- program constants
DefaultLameConnectionTimeoutSeconds == 10
\* _nextDeadConnectionCheck: set to 0 by the constructor (line 67), never assigned again.
NextDeadConnectionCheck == 0
\* errno values compared at line 224 (Linux, the only epoll platform).
EAGAIN == 11
EWOULDBLOCK == 11
EIO == 5

\* Values the host passes to setLameConnectionTimeoutSeconds.
LameTimeouts == {0, 1}

\* The thread the host calls serve() on (threads are interchangeable).
ServeThreads == {1}

\* epoll event bits
EPOLLIN == "EPOLLIN"
EPOLLOUT == "EPOLLOUT"
EPOLLHUP == "EPOLLHUP"
EPOLLERR == "EPOLLERR"
EventBits == {EPOLLIN, EPOLLOUT, EPOLLHUP, EPOLLERR}
EventMasks == (SUBSET EventBits) \ {{}}

\* epoll tokens (epoll_event.data.ptr): `this` (line 166), &_pipes[0] (line 172), or a
\* Connection* (line 311), which is a member of Conns.
ListenToken == -1
WakeToken == -2

VARIABLES
    \* ---- Server fields
    _listenSock,                   \* -1 or a descriptor
    _epollFd,                      \* -1 or a descriptor
    _pipes,                        \* <<read end, write end>>, -1 or descriptors
    _lameConnectionTimeoutSeconds,
    _terminate,
    _threadId,
    _connections,                  \* Connection* -> accept time
    _pendingRunnables,             \* std::list of runnables
    _pendingRunnableMutex,         \* 0 (free) or the holding thread
    \* ---- kernel / environment
    epoll,                         \* interest set of the epoll instance _epollFd names: token -> mask
    pipe,                          \* unread signals in the wake-up pipe
    now,                           \* the last value time(NULL) returned
    closed,                        \* descriptors ~Server has closed
    connQuota,                     \* connections the peers will still open
    taskQuota,                     \* schedule() calls still to come
    serveQuota,                    \* serve() calls still to come
    backlog,                       \* connections left pending on the listening socket by the last accept
    \* ---- Connection objects
    bytesReceived,                 \* Connection::bytesReceived()
    destroyed,                     \* number of times each Connection was deleted
    \* ---- control
    tpc,                           \* per thread: "idle", "serve", "schedule", "terminate", "destroy", "crashed"
    rpc,                           \* reactor position inside Server::serve
    dpc,                           \* position inside ~Server
    serves,                        \* serve() calls so far
    terminateCalls,                \* terminate() calls so far
    \* ---- locals of serve / processEventQueue / delete
    runnable,                      \* the runnable popped and not yet run (0: none)
    toRemove,                      \* processEventQueue's toRemove
    ready,                         \* tokens of events[] not yet routed
    toBeDeleted,                   \* serve's toBeDeleted
    closing,                       \* the Connection being deleted, between remove() and close(fd) (0: none)
    \* ---- history
    enq,                           \* tasks in the order they were appended
    ran,                           \* tasks in the order they were run
    ranOn,                         \* task -> thread it ran on (0: not run)
    phase,                         \* task -> when schedule() appended it
    drainMark,                     \* Len(enq) when the current drain began
    scanNow,                       \* the clock value of the current lame scan (-1: none)
    steps,                         \* steps of the current loop iteration
    everRegistered,                \* connections handleAccept inserted
    allocated,                     \* Connection objects constructed so far
    exitedLoop,                    \* the loop condition has observed _terminate
    terminatedIn,                  \* when terminate() was first called ("never": not yet)
    handled,                       \* handlers the last connection event drove, in order
    modResult,                     \* what the last (un)subscribe call returned ("none": no call yet)
    fatal                          \* why the reactor is giving up in this iteration ("none": it is not)

vars == << _listenSock, _epollFd, _pipes, _lameConnectionTimeoutSeconds,
           _terminate, _threadId, _connections, _pendingRunnables,
           _pendingRunnableMutex, epoll, pipe, now, closed, connQuota,
           taskQuota, serveQuota, backlog, bytesReceived, destroyed, tpc,
           rpc, dpc, serves, terminateCalls, runnable, toRemove, ready,
           toBeDeleted, closing, enq, ran, ranOn, phase, drainMark, scanNow,
           steps, everRegistered, allocated, exitedLoop, terminatedIn,
           handled, modResult, fatal >>

\* ----------------------------------------------------------------- helpers
Without(f, x) == [y \in (DOMAIN f) \ {x} |-> f[y]]
With(f, x, v) == [y \in (DOMAIN f) \cup {x} |-> IF y = x THEN v ELSE f[y]]
Min(a, b) == IF a < b THEN a ELSE b

Serving == \E t \in Threads : tpc[t] = "serve"
Reactor == CHOOSE t \in Threads : tpc[t] = "serve"
AllIdle == \A t \in Threads : tpc[t] = "idle"
Gone == dpc # "alive"

\* Server::Server, lines 64-70
Constructed ==
    /\ _listenSock = -1
    /\ _epollFd = -1
    /\ _pipes = << -1, -1 >>
    /\ _lameConnectionTimeoutSeconds = DefaultLameConnectionTimeoutSeconds
    /\ _terminate = FALSE
    /\ _threadId = 0
    /\ _connections = << >>
    /\ _pendingRunnables = << >>
    /\ _pendingRunnableMutex = 0
    /\ epoll = << >>
    /\ pipe = 0
    /\ now = 0
    /\ closed = {}
    /\ bytesReceived = [c \in Conns |-> 0]
    /\ destroyed = [c \in Conns |-> 0]
    /\ tpc = [t \in Threads |-> "idle"]
    /\ rpc = "none"
    /\ dpc = "alive"
    /\ serves = 0
    /\ terminateCalls = 0
    /\ runnable = 0
    /\ toRemove = {}
    /\ ready = {}
    /\ toBeDeleted = << >>
    /\ closing = 0
    /\ enq = << >>
    /\ ran = << >>
    /\ ranOn = [k \in Tasks |-> 0]
    /\ phase = [k \in Tasks |-> "unscheduled"]
    /\ drainMark = 0
    /\ scanNow = -1
    /\ steps = << >>
    /\ everRegistered = {}
    /\ allocated = 0
    /\ exitedLoop = FALSE
    /\ terminatedIn = "never"
    /\ backlog = 0
    /\ handled = << >>
    /\ modResult = "none"
    /\ fatal = "none"

\* A freshly constructed server and the workload its environment will offer.
Init == Constructed /\ connQuota = FewConns /\ taskQuota = FewTasks /\ serveQuota = FewServes
InitQueue == Constructed /\ connQuota = 0 /\ taskQuota = MaxTasks /\ serveQuota = FewServes
InitConn == Constructed /\ connQuota = MaxConns /\ taskQuota = 0 /\ serveQuota = FewServes
InitRestart ==
    Constructed /\ connQuota = FewConns /\ taskQuota = FewTasks /\ serveQuota = MaxServes

\* ----------------------------------------------------------- seeded faults
\* Faulty variants of tests and assignments of the code; a property that is said to
\* hold of the code is also run against the variant it is meant to tell apart.
\* remove() that forgets the erase of line 327.
RemoveKeepsEntry(c) == _connections
\* popNextRunnable() that takes the newest task instead of the oldest.
PopBack(q) == [task |-> q[Len(q)], rest |-> SubSeq(q, 1, Len(q) - 1)]
\* popNextRunnable() that never finds a task.
QueueSeemsEmpty == TRUE
\* processEventQueue() with an `if` for the `while` of line 264: one task per call.
AfterRunOnce == "lame"
\* line 236 testing for a hang-up that comes alone.
IsHangupAlone(mask) == mask = {"EPOLLHUP"}
\* lines 240-245 with the two `if`s exchanged: the reader side first.
ServicedReaderFirst(mask) ==
    (IF "EPOLLIN" \in mask THEN << "read" >> ELSE << >>)
        \o (IF "EPOLLOUT" \in mask THEN << "write" >> ELSE << >>)
\* lines 207, 218 and 254 without the assignment: the flag stays as it was.
FatalFlagKept == _terminate
\* handleAccept() calling accept() until it would block: nothing is left pending.
NoneLeftPending(pend) == pend - pend
\* schedule() and terminate() without the ::write to the wake-up pipe.
WriteWakeNever(p) == p
\* popNextRunnable() returning with the mutex still held by the reactor thread.
MutexKeptAfterPop == _threadId
\* line 183 as `while (true)`: the flag is not read.
LoopContinuesAlways == TRUE
\* terminate() that does not set the flag.
TerminateFlagKept == _terminate
\* ~Server that skips the loop of lines 78-81.
NoConnectionsLeft == FALSE
\* line 275 with > for >=.
IsLameStrict(c, clock) ==
    bytesReceived[c] = 0 /\ clock - _connections[c] > _lameConnectionTimeoutSeconds
\* line 275 with || for &&.
IsLameEither(c, clock) ==
    bytesReceived[c] = 0 \/ clock - _connections[c] >= _lameConnectionTimeoutSeconds
\* line 270 never true: the scan of lines 271-283 is skipped.
LameCheckNever(clock) == FALSE

\* ------------------------------------------------------------ Server::serve
\* The start-up calls of serve(), in order; serve() returns at the first that fails.
StartupCalls == << "socket", "configureSocket", "bind", "listen", "epoll_create",
                   "pipe", "makeNonBlocking", "epoll_ctl_listen", "epoll_ctl_wake" >>
NoFailure == Len(StartupCalls) + 1
Reached(failAt, call) == \E i \in 1..Len(StartupCalls) : StartupCalls[i] = call /\ i < failAt
Failed(failAt, call) == \E i \in 1..Len(StartupCalls) : StartupCalls[i] = call /\ i = failAt

\* The interest set after the start-up: a new epoll instance when epoll_create was
\* reached, with the tokens the two EPOLL_CTL_ADD calls (lines 166-176) registered.
StartupEpoll(failAt) ==
    IF Reached(failAt, "epoll_create") \/ Failed(failAt, "epoll_create")
    THEN [k \in ((IF Reached(failAt, "epoll_ctl_listen") THEN {ListenToken} ELSE {})
                 \cup (IF Reached(failAt, "epoll_ctl_wake") THEN {WakeToken} ELSE {}))
          |-> {EPOLLIN}]
    ELSE epoll

\* Seeded fault: a start-up that does not check its last call, the EPOLL_CTL_ADD of the
\* wake-up pipe.
StartupUnchecked(failAt) == failAt >= Len(StartupCalls)

\* lines 129-176: every start-up call is checked, and serve() goes on to its loop only
\* when none has failed.
StartupSucceeded(failAt) == failAt = NoFailure

\* serve(), lines 125-182: the start-up, failing at call number failAt (NoFailure: none fails).
Serve(t, failAt) ==
    /\ tpc[t] = "idle" /\ ~Serving /\ ~Gone
    /\ serveQuota > 0
    /\ serveQuota' = serveQuota - 1
    /\ serves' = serves + 1
    /\ fatal' = "none"
    /\ _threadId' = t
    /\ _listenSock' = IF Failed(failAt, "socket") THEN -1 ELSE 1
    /\ _epollFd' = IF Reached(failAt, "epoll_create") THEN 1
                   ELSE IF Failed(failAt, "epoll_create") THEN -1 ELSE _epollFd
    /\ _pipes' = IF Reached(failAt, "pipe") THEN << 1, 1 >> ELSE _pipes
    /\ pipe' = IF Reached(failAt, "pipe") THEN 0 ELSE pipe
    /\ epoll' = StartupEpoll(failAt)
    /\ IF StartupSucceeded(failAt)
       THEN /\ tpc' = [tpc EXCEPT ![t] = "serve"]
            /\ rpc' = "loop"
       ELSE /\ tpc' = tpc
            /\ rpc' = "returned"
    /\ UNCHANGED << _lameConnectionTimeoutSeconds, _terminate, _connections,
                    _pendingRunnables, _pendingRunnableMutex, now, closed,
                    connQuota, taskQuota, backlog, bytesReceived, destroyed,
                    dpc, terminateCalls, runnable, toRemove, ready,
                    toBeDeleted, closing, enq, ran, ranOn, phase, drainMark,
                    scanNow, steps, everRegistered, allocated, exitedLoop,
                    terminatedIn, handled, modResult >>

\* What `while (!_terminate)` reads (line 183).
LoopContinues == ~_terminate

\* serve() leaves: `return` or the end of the loop.
ServeReturns ==
    /\ tpc' = [tpc EXCEPT ![Reactor] = "idle"]
    /\ rpc' = "returned"
    /\ steps' = << >>
    /\ drainMark' = 0
    /\ scanNow' = -1
    /\ fatal' = "none"

\* line 183: the loop condition; lines 184-185: processEventQueue() is called first.
LoopCondition ==
    /\ Serving /\ rpc = "loop"
    /\ IF LoopContinues
       THEN /\ rpc' = "pop"
            /\ steps' = << "drain" >>
            /\ drainMark' = Len(enq)
            /\ UNCHANGED << tpc, exitedLoop, scanNow, fatal >>
       ELSE /\ ServeReturns
            /\ exitedLoop' = TRUE
    /\ UNCHANGED << _listenSock, _epollFd, _pipes,
                    _lameConnectionTimeoutSeconds, _terminate, _threadId,
                    _connections, _pendingRunnables, _pendingRunnableMutex,
                    epoll, pipe, now, closed, connQuota, taskQuota,
                    serveQuota, backlog, bytesReceived, destroyed, dpc,
                    serves, terminateCalls, runnable, toRemove, ready,
                    toBeDeleted, closing, enq, ran, ranOn, phase,
                    everRegistered, allocated, terminatedIn, handled,
                    modResult >>

\* ------------------------------------------------- the task queue, 369-386
\* The element popNextRunnable takes (front()) and what it leaves (pop_front()).
PopFront(q) == [task |-> Head(q), rest |-> Tail(q)]

\* Where the server is in its life, for the record: before serve(), while it serves
\* (with terminate() already called or not), after serve() returned.
PhaseNow ==
    IF Serving THEN (IF terminateCalls > 0 THEN "terminating" ELSE "serving")
    ELSE IF serves = 0 THEN "before" ELSE "after"

\* popNextRunnable(), lines 379 and 386: the LockGuard takes the mutex and gives it
\* back when the function returns, so that no runnable runs under it.
MutexAfterPop == 0

\* schedule(), lines 370-371: take the mutex, push_back.
ScheduleBegin(t) ==
    /\ tpc[t] = "idle" /\ ~Gone
    /\ _pendingRunnableMutex = 0
    /\ taskQuota > 0
    /\ taskQuota' = taskQuota - 1
    /\ LET k == Len(enq) + 1 IN
        /\ _pendingRunnables' = Append(_pendingRunnables, k)
        /\ enq' = Append(enq, k)
        /\ phase' = [phase EXCEPT ![k] = PhaseNow]
    /\ _pendingRunnableMutex' = t
    /\ tpc' = [tpc EXCEPT ![t] = "schedule"]
    /\ UNCHANGED << _listenSock, _epollFd, _pipes,
                    _lameConnectionTimeoutSeconds, _terminate, _threadId,
                    _connections, epoll, pipe, now, closed, connQuota,
                    serveQuota, backlog, bytesReceived, destroyed, rpc, dpc,
                    serves, terminateCalls, runnable, toRemove, ready,
                    toBeDeleted, closing, ran, ranOn, drainMark, scanNow,
                    steps, everRegistered, allocated, exitedLoop,
                    terminatedIn, handled, modResult, fatal >>

\* ::write(_pipes[1], &one, sizeof(one)): one more unread signal, or EAGAIN on a full pipe;
\* on -1 (no pipe yet) the write is skipped (schedule) or fails with EBADF (terminate).
WriteWake(p) == IF _pipes[2] = -1 THEN p ELSE Min(p + 1, PipeCapacity)

\* schedule(), lines 372-376: signal the wake-up pipe, release the mutex.
ScheduleEnd(t) ==
    /\ tpc[t] = "schedule"
    /\ pipe' = WriteWake(pipe)
    /\ _pendingRunnableMutex' = 0
    /\ tpc' = [tpc EXCEPT ![t] = "idle"]
    /\ UNCHANGED << _listenSock, _epollFd, _pipes,
                    _lameConnectionTimeoutSeconds, _terminate, _threadId,
                    _connections, _pendingRunnables, epoll, now, closed,
                    connQuota, taskQuota, serveQuota, backlog, bytesReceived,
                    destroyed, rpc, dpc, serves, terminateCalls, runnable,
                    toRemove, ready, toBeDeleted, closing, enq, ran, ranOn,
                    phase, drainMark, scanNow, steps, everRegistered,
                    allocated, exitedLoop, terminatedIn, handled, modResult,
                    fatal >>

\* line 381: _pendingRunnables.empty()
QueueEmpty == _pendingRunnables = << >>

\* processEventQueue(), lines 264-266 with popNextRunnable(), lines 378-386.
PopNextRunnable ==
    /\ Serving /\ rpc = "pop"
    /\ _pendingRunnableMutex = 0
    /\ _pendingRunnableMutex' = MutexAfterPop
    /\ IF ~QueueEmpty
       THEN /\ runnable' = PopFront(_pendingRunnables).task
            /\ _pendingRunnables' = PopFront(_pendingRunnables).rest
            /\ rpc' = "run"
       ELSE /\ rpc' = "lame"
            /\ UNCHANGED << runnable, _pendingRunnables >>
    /\ UNCHANGED << _listenSock, _epollFd, _pipes,
                    _lameConnectionTimeoutSeconds, _terminate, _threadId,
                    _connections, epoll, pipe, now, closed, connQuota,
                    taskQuota, serveQuota, backlog, bytesReceived, destroyed,
                    tpc, dpc, serves, terminateCalls, toRemove, ready,
                    toBeDeleted, closing, enq, ran, ranOn, phase, drainMark,
                    scanNow, steps, everRegistered, allocated, exitedLoop,
                    terminatedIn, handled, modResult, fatal >>

\* Where processEventQueue() goes after running a runnable (the for (;;) of line 264).
AfterRun == "pop"

\* processEventQueue(), line 267: runnable->run().  The task may itself call
\* schedule() (lines 369-376, on the reactor thread, once the mutex is free).
RunRunnable(reschedules) ==
    /\ Serving /\ rpc = "run"
    /\ ran' = Append(ran, runnable)
    /\ ranOn' = [ranOn EXCEPT ![runnable] = Reactor]
    /\ runnable' = 0
    /\ rpc' = AfterRun
    /\ IF reschedules
       THEN /\ _pendingRunnableMutex = 0
            /\ taskQuota > 0
            /\ taskQuota' = taskQuota - 1
            /\ LET k == Len(enq) + 1 IN
                /\ _pendingRunnables' = Append(_pendingRunnables, k)
                /\ enq' = Append(enq, k)
                /\ phase' = [phase EXCEPT ![k] = "drain"]
            /\ pipe' = WriteWake(pipe)
       ELSE UNCHANGED << taskQuota, _pendingRunnables, enq, phase, pipe >>
    /\ UNCHANGED << _listenSock, _epollFd, _pipes,
                    _lameConnectionTimeoutSeconds, _terminate, _threadId,
                    _connections, _pendingRunnableMutex, epoll, now, closed,
                    connQuota, serveQuota, backlog, bytesReceived, destroyed,
                    tpc, dpc, serves, terminateCalls, toRemove, ready,
                    toBeDeleted, closing, drainMark, scanNow, steps,
                    everRegistered, allocated, exitedLoop, terminatedIn,
                    handled, modResult, fatal >>

\* ------------------------------------------- Connection objects and remove()
\* checkThread(), lines 416-424: the caller must be the thread recorded by serve().
CheckThread(tid) == tid = _threadId

\* remove(), lines 323-326: epoll_ctl(EPOLL_CTL_DEL).  It fails (and is only logged) when
\* the descriptor is not registered, or when the kernel refuses (delOk = FALSE, ENOMEM),
\* which leaves the registration in place.
RemoveFromEpoll(c, delOk) == IF c \in DOMAIN epoll /\ delOk THEN Without(epoll, c) ELSE epoll

\* remove(), line 327: _connections.erase(connection).
RemoveFromRegistry(c) == Without(_connections, c)

\* `delete connection`, first half: ~Connection "removes it from 'this'" (line 79) by
\* calling Server::remove (lines 321-328) on thread tid.
Remove(c, tid, delOk) ==
    /\ CheckThread(tid)
    /\ epoll' = RemoveFromEpoll(c, delOk)
    /\ _connections' = RemoveFromRegistry(c)
    /\ closing' = c

\* `delete connection`, second half: ~Connection "closes it" (line 79); closing the
\* descriptor takes it out of the epoll set, and the object is gone.
CloseConnection ==
    /\ closing # 0
    /\ epoll' = Without(epoll, closing)
    /\ destroyed' = [destroyed EXCEPT ![closing] = @ + 1]
    /\ closing' = 0
    /\ UNCHANGED << _listenSock, _epollFd, _pipes,
                    _lameConnectionTimeoutSeconds, _terminate, _threadId,
                    _connections, _pendingRunnables, _pendingRunnableMutex,
                    pipe, now, closed, connQuota, taskQuota, serveQuota,
                    backlog, bytesReceived, tpc, rpc, dpc, serves,
                    terminateCalls, runnable, toRemove, ready, toBeDeleted,
                    enq, ran, ranOn, phase, drainMark, scanNow, steps,
                    everRegistered, allocated, exitedLoop, terminatedIn,
                    handled, modResult, fatal >>

\* ------------------------------------------ processEventQueue(), 269-284
\* line 270
LameCheckDue(clock) == clock >= NextDeadConnectionCheck

\* lines 273-275: the test that puts a connection on toRemove.
IsLame(c, clock) ==
    bytesReceived[c] = 0 /\ clock - _connections[c] >= _lameConnectionTimeoutSeconds

\* time(NULL): the wall clock, which does not run backwards here.
ClockValues == now..MaxTime

\* lines 269-280: read the clock and collect the lame connections.
LameScan(clock) ==
    /\ Serving /\ rpc = "lame"
    /\ clock \in ClockValues
    /\ now' = clock
    /\ IF LameCheckDue(clock)
       THEN /\ toRemove' = {c \in DOMAIN _connections : IsLame(c, clock)}
            /\ scanNow' = clock
            /\ steps' = Append(steps, "lame")
            /\ rpc' = "reap"
       ELSE /\ rpc' = "poll"
            /\ UNCHANGED << toRemove, scanNow, steps >>
    /\ UNCHANGED << _listenSock, _epollFd, _pipes,
                    _lameConnectionTimeoutSeconds, _terminate, _threadId,
                    _connections, _pendingRunnables, _pendingRunnableMutex,
                    epoll, pipe, closed, connQuota, taskQuota, serveQuota,
                    backlog, bytesReceived, destroyed, tpc, dpc, serves,
                    terminateCalls, runnable, ready, toBeDeleted, closing,
                    enq, ran, ranOn, phase, drainMark, everRegistered,
                    allocated, exitedLoop, terminatedIn, handled, modResult,
                    fatal >>

\* lines 281-283: delete every connection on toRemove, then return to serve().
LameReap(delOk) ==
    /\ Serving /\ rpc = "reap" /\ closing = 0
    /\ IF toRemove = {}
       THEN /\ delOk
            /\ rpc' = "poll"
            /\ UNCHANGED << toRemove, _connections, epoll, closing >>
       ELSE \E c \in toRemove :
            /\ Remove(c, Reactor, delOk)
            /\ toRemove' = toRemove \ {c}
            /\ rpc' = "reap"
    /\ UNCHANGED << _listenSock, _epollFd, _pipes,
                    _lameConnectionTimeoutSeconds, _terminate, _threadId,
                    _pendingRunnables, _pendingRunnableMutex, pipe, now,
                    closed, connQuota, taskQuota, serveQuota, backlog,
                    bytesReceived, destroyed, tpc, dpc, serves,
                    terminateCalls, runnable, ready, toBeDeleted, enq, ran,
                    ranOn, phase, drainMark, scanNow, steps, everRegistered,
                    allocated, exitedLoop, terminatedIn, handled, modResult,
                    fatal >>

\* ------------------------------------------------------ serve(), 186-201
\* What epoll_wait may report: registered tokens; the wake-up pipe is level-triggered,
\* so it is among them whenever a signal is unread.
ReadySets ==
    {r \in SUBSET (DOMAIN epoll) : (pipe > 0 /\ WakeToken \in DOMAIN epoll) => WakeToken \in r}

\* Where `continue` (line 189) goes: the loop condition.
AfterEINTR == "loop"

\* lines 186-192: epoll_wait returns events (none on a timeout), or fails.
EpollWait(result) ==
    /\ Serving /\ rpc = "poll"
    /\ toBeDeleted' = << >>
    /\ CASE result = "EINTR" ->
              /\ rpc' = AfterEINTR
              /\ steps' = Append(steps, "poll")
              /\ drainMark' = 0
              /\ scanNow' = -1
              /\ UNCHANGED << tpc, ready, fatal >>
         [] result = "error" ->
              /\ ServeReturns
              /\ UNCHANGED ready
         [] OTHER ->
              /\ \E r \in ReadySets : ready' = r
              /\ rpc' = "route"
              /\ steps' = steps \o << "poll", "route" >>
              /\ drainMark' = 0
              /\ scanNow' = -1
              /\ UNCHANGED << tpc, fatal >>
    /\ UNCHANGED << _listenSock, _epollFd, _pipes,
                    _lameConnectionTimeoutSeconds, _terminate, _threadId,
                    _connections, _pendingRunnables, _pendingRunnableMutex,
                    epoll, pipe, now, closed, connQuota, taskQuota,
                    serveQuota, backlog, bytesReceived, destroyed, dpc,
                    serves, terminateCalls, runnable, toRemove, closing, enq,
                    ran, ranOn, phase, everRegistered, allocated, exitedLoop,
                    terminatedIn, handled, modResult >>

\* ------------------------------------------------- handleAccept(), 287-319
AcceptResults == {"accept_failed", "linger_failed", "configure_failed", "add_failed", "accepted"}

\* lines 310-318: a Connection is constructed, registered with epoll for EPOLLIN and
\* inserted with the current time; when EPOLL_CTL_ADD fails it is deleted on the spot
\* (its remove() finds nothing to remove) and never enters the registry.
HandleAccept(result, clock) ==
    IF result \in {"add_failed", "accepted"} /\ connQuota > 0
    THEN LET c == allocated + 1 IN
         /\ allocated' = c
         /\ connQuota' = connQuota - 1
         /\ IF result = "accepted"
            THEN /\ epoll' = With(epoll, c, {EPOLLIN})
                 /\ _connections' = With(_connections, c, clock)
                 /\ everRegistered' = everRegistered \cup {c}
                 /\ now' = clock
                 /\ UNCHANGED destroyed
            ELSE /\ CheckThread(Reactor)
                 /\ epoll' = Without(RemoveFromEpoll(c, TRUE), c)
                 /\ _connections' = RemoveFromRegistry(c)
                 /\ destroyed' = [destroyed EXCEPT ![c] = @ + 1]
                 /\ UNCHANGED << everRegistered, now >>
    ELSE UNCHANGED << allocated, connQuota, epoll, _connections, everRegistered, destroyed, now >>

\* ------------------------------------------------------ serve(), 202-248
\* line 224: `errno != EAGAIN || errno != EWOULDBLOCK` after the draining reads.
WakeReadFailed(errno) == errno # EAGAIN \/ errno # EWOULDBLOCK

\* Masks the kernel can report for the wake-up pipe (readable only with a signal unread)
\* and for the listening socket.
WakeMasks == {m \in EventMasks : EPOLLOUT \notin m /\ (EPOLLIN \in m <=> pipe > 0)}
ListenMasks == {m \in EventMasks : EPOLLOUT \notin m}

\* lines 204 and 215: an event with a bit other than EPOLLIN.
IsUnexpected(mask) == mask \ {EPOLLIN} # {}

\* What lines 207, 218 and 254 store in _terminate.
FatalFlag == TRUE

\* Connections pending on the listening socket once handleAccept() has returned, when
\* pend were pending as it was called: accept() (line 290) is called once and takes one.
LeftPending(pend) == pend - 1

\* lines 203-212: an event on the listening socket, with pend connections pending (the
\* accept of line 290 fails when there is none).
RouteListen(mask, result, clock, pend) ==
    /\ Serving /\ rpc = "route" /\ ListenToken \in ready
    /\ mask \in ListenMasks
    /\ clock \in ClockValues
    /\ IF IsUnexpected(mask)
       THEN /\ _terminate' = FatalFlag
            /\ fatal' = "listen"
            /\ ready' = {}
            /\ result = "accept_failed" /\ clock = now /\ pend = 0
            /\ UNCHANGED << now, allocated, connQuota, epoll, _connections, everRegistered,
                            destroyed, backlog >>
       ELSE /\ ready' = ready \ {ListenToken}
            /\ (result = "accepted" /\ connQuota > 0) \/ clock = now
            /\ IF result \in {"add_failed", "accepted"} /\ connQuota > 0
               THEN pend \in 1..connQuota /\ backlog' = LeftPending(pend)
               ELSE pend = 0 /\ backlog' = 0
            /\ HandleAccept(result, clock)
            /\ UNCHANGED << _terminate, fatal >>
    /\ UNCHANGED << _listenSock, _epollFd, _pipes,
                    _lameConnectionTimeoutSeconds, _threadId,
                    _pendingRunnables, _pendingRunnableMutex, pipe, closed,
                    taskQuota, serveQuota, bytesReceived, tpc, rpc, dpc,
                    serves, terminateCalls, runnable, toRemove, toBeDeleted,
                    closing, enq, ran, ranOn, phase, drainMark, scanNow,
                    steps, exitedLoop, terminatedIn, handled, modResult >>

\* lines 213-228: an event on the wake-up pipe: read until read() fails, with errno.
\* EAGAIN means the pipe was emptied; on another error `left` signals stay unread.
RouteWake(mask, errno, left) ==
    /\ Serving /\ rpc = "route" /\ WakeToken \in ready
    /\ mask \in WakeMasks
    /\ IF IsUnexpected(mask)
       THEN /\ _terminate' = FatalFlag
            /\ fatal' = "wake"
            /\ ready' = {}
            /\ errno = EAGAIN /\ left = 0
            /\ UNCHANGED pipe
       ELSE /\ ready' = ready \ {WakeToken}
            /\ IF errno = EAGAIN THEN left = 0 ELSE left \in 0..pipe
            /\ pipe' = left
            /\ _terminate' = (_terminate \/ WakeReadFailed(errno))
            /\ fatal' = IF WakeReadFailed(errno) THEN "wake" ELSE fatal
    /\ UNCHANGED << _listenSock, _epollFd, _pipes,
                    _lameConnectionTimeoutSeconds, _threadId, _connections,
                    _pendingRunnables, _pendingRunnableMutex, epoll, now,
                    closed, connQuota, taskQuota, serveQuota, backlog,
                    bytesReceived, destroyed, tpc, rpc, dpc, serves,
                    terminateCalls, runnable, toRemove, toBeDeleted, closing,
                    enq, ran, ranOn, phase, drainMark, scanNow, steps,
                    everRegistered, allocated, exitedLoop, terminatedIn,
                    handled, modResult >>

\* lines 232 and 236: the masks that put the connection on toBeDeleted.
IsErrorMask(mask) == mask \ {EPOLLIN, EPOLLOUT, EPOLLHUP} # {}
IsHangup(mask) == EPOLLHUP \in mask

\* Connection::handleDataReadyForRead: `got` bytes are received and counted.
HandleDataReadyForRead(c, got) ==
    bytesReceived' = [bytesReceived EXCEPT ![c] = Min(@ + got, MaxBytes)]

\* Masks the kernel can report for a connection: readable and writable only while
\* subscribed (lines 311, 331, 340), hang-up and error at any time.
ConnMasks(c) ==
    {m \in EventMasks : c \in DOMAIN epoll => (m \cap {EPOLLIN, EPOLLOUT}) \subseteq epoll[c]}

\* lines 240-245: the handlers driven for a mask without hang-up or error bit, in the
\* order of the calls: handleDataReadyForWrite, then handleDataReadyForRead.
Serviced(mask) ==
    (IF EPOLLOUT \in mask THEN << "write" >> ELSE << >>)
        \o (IF EPOLLIN \in mask THEN << "read" >> ELSE << >>)

\* lines 229-247: an event on a connection.
RouteConnection(c, mask, got) ==
    /\ Serving /\ rpc = "route" /\ c \in ready /\ c \in Conns
    /\ mask \in ConnMasks(c)
    /\ ready' = ready \ {c}
    /\ IF IsErrorMask(mask) \/ IsHangup(mask)
       THEN /\ toBeDeleted' = Append(toBeDeleted, c)
            /\ handled' = << >>
            /\ got = 0
            /\ UNCHANGED bytesReceived
       ELSE /\ UNCHANGED toBeDeleted
            /\ handled' = Serviced(mask)
            /\ IF EPOLLIN \in mask
               THEN HandleDataReadyForRead(c, got)
               ELSE got = 0 /\ UNCHANGED bytesReceived
    /\ UNCHANGED << _listenSock, _epollFd, _pipes,
                    _lameConnectionTimeoutSeconds, _terminate, _threadId,
                    _connections, _pendingRunnables, _pendingRunnableMutex,
                    epoll, pipe, now, closed, connQuota, taskQuota,
                    serveQuota, backlog, destroyed, tpc, rpc, dpc, serves,
                    terminateCalls, runnable, toRemove, closing, enq, ran,
                    ranOn, phase, drainMark, scanNow, steps, everRegistered,
                    allocated, exitedLoop, terminatedIn, modResult, fatal >>

\* line 202: the for loop over events[] ends.
RouteDone ==
    /\ Serving /\ rpc = "route" /\ ready = {}
    /\ rpc' = "delete"
    /\ steps' = Append(steps, "destroy")
    /\ handled' = << >>
    /\ backlog' = 0
    /\ UNCHANGED << _listenSock, _epollFd, _pipes,
                    _lameConnectionTimeoutSeconds, _terminate, _threadId,
                    _connections, _pendingRunnables, _pendingRunnableMutex,
                    epoll, pipe, now, closed, connQuota, taskQuota,
                    serveQuota, bytesReceived, destroyed, tpc, dpc, serves,
                    terminateCalls, runnable, toRemove, ready, toBeDeleted,
                    closing, enq, ran, ranOn, phase, drainMark, scanNow,
                    everRegistered, allocated, exitedLoop, terminatedIn,
                    modResult, fatal >>

\* ------------------------------------------------------ serve(), 249-260
DeleteQueued(delOk) ==
    /\ Serving /\ rpc = "delete" /\ closing = 0
    /\ IF toBeDeleted = << >>
       THEN /\ delOk
            /\ rpc' = "loop"
            /\ UNCHANGED << toBeDeleted, _terminate, fatal, _connections, epoll, closing >>
       ELSE LET c == Head(toBeDeleted) IN
            IF c \notin DOMAIN _connections
            THEN /\ delOk
                 /\ _terminate' = FatalFlag
                 /\ fatal' = "registry"
                 /\ toBeDeleted' = << >>
                 /\ rpc' = "loop"
                 /\ UNCHANGED << _connections, epoll, closing >>
            ELSE /\ Remove(c, Reactor, delOk)
                 /\ toBeDeleted' = Tail(toBeDeleted)
                 /\ rpc' = "delete"
                 /\ UNCHANGED << _terminate, fatal >>
    /\ UNCHANGED << _listenSock, _epollFd, _pipes,
                    _lameConnectionTimeoutSeconds, _threadId,
                    _pendingRunnables, _pendingRunnableMutex, pipe, now,
                    closed, connQuota, taskQuota, serveQuota, backlog,
                    bytesReceived, destroyed, tpc, dpc, serves,
                    terminateCalls, runnable, toRemove, ready, enq, ran,
                    ranOn, phase, drainMark, scanNow, steps, everRegistered,
                    allocated, exitedLoop, terminatedIn, handled, modResult >>


\* ------------------------------------- (un)subscribeToWriteEvents(), 330-346
\* What the two calls ask epoll for (lines 331 and 340).
WriteSubscription == {EPOLLIN, EPOLLOUT}
ReadSubscription == {EPOLLIN}

\* epoll_ctl(EPOLL_CTL_MOD), lines 332 and 341: it fails, changing nothing, when the
\* descriptor is not in the interest set _epollFd names or the kernel refuses (modOk = FALSE).
ModSucceeds(c, modOk) == c \in DOMAIN epoll /\ modOk
ModEpoll(c, mask, modOk) == IF ModSucceeds(c, modOk) THEN [epoll EXCEPT ![c] = mask] ELSE epoll

\* lines 332-336 and 341-345: false when epoll_ctl failed, true otherwise.
ModReturns(c, modOk) == IF ModSucceeds(c, modOk) THEN "true" ELSE "false"

\* Who can be calling: the reactor thread from a task or a handler, or any other thread
\* that holds the Connection pointer; neither function calls checkThread().
CanCall(t) == tpc[t] = "idle" \/ (tpc[t] = "serve" /\ rpc \in {"run", "route"})

\* subscribeToWriteEvents(), lines 330-337.
SubscribeToWriteEvents(t, c, modOk) ==
    /\ ~Gone /\ CanCall(t) /\ closing = 0
    /\ c \in DOMAIN _connections
    /\ epoll' = ModEpoll(c, WriteSubscription, modOk)
    /\ modResult' = ModReturns(c, modOk)
    /\ UNCHANGED << _listenSock, _epollFd, _pipes,
                    _lameConnectionTimeoutSeconds, _terminate, _threadId,
                    _connections, _pendingRunnables, _pendingRunnableMutex,
                    pipe, now, closed, connQuota, taskQuota, serveQuota,
                    backlog, bytesReceived, destroyed, tpc, rpc, dpc, serves,
                    terminateCalls, runnable, toRemove, ready, toBeDeleted,
                    closing, enq, ran, ranOn, phase, drainMark, scanNow,
                    steps, everRegistered, allocated, exitedLoop,
                    terminatedIn, handled, fatal >>

\* unsubscribeFromWriteEvents(), lines 339-346.
UnsubscribeFromWriteEvents(t, c, modOk) ==
    /\ ~Gone /\ CanCall(t) /\ closing = 0
    /\ c \in DOMAIN _connections
    /\ epoll' = ModEpoll(c, ReadSubscription, modOk)
    /\ modResult' = ModReturns(c, modOk)
    /\ UNCHANGED << _listenSock, _epollFd, _pipes,
                    _lameConnectionTimeoutSeconds, _terminate, _threadId,
                    _connections, _pendingRunnables, _pendingRunnableMutex,
                    pipe, now, closed, connQuota, taskQuota, serveQuota,
                    backlog, bytesReceived, destroyed, tpc, rpc, dpc, serves,
                    terminateCalls, runnable, toRemove, ready, toBeDeleted,
                    closing, enq, ran, ranOn, phase, drainMark, scanNow,
                    steps, everRegistered, allocated, exitedLoop,
                    terminatedIn, handled, fatal >>
\* ------------------------------------------------------------ host threads
\* What terminate() stores in _terminate (line 118).
TerminateFlag == TRUE

\* terminate(), line 118.
TerminateBegin(t) ==
    /\ tpc[t] = "idle" /\ ~Gone
    /\ terminateCalls < MaxTerminateCalls
    /\ terminateCalls' = terminateCalls + 1
    /\ _terminate' = TerminateFlag
    /\ terminatedIn' = IF terminatedIn = "never" THEN PhaseNow ELSE terminatedIn
    /\ tpc' = [tpc EXCEPT ![t] = "terminate"]
    /\ UNCHANGED << _listenSock, _epollFd, _pipes,
                    _lameConnectionTimeoutSeconds, _threadId, _connections,
                    _pendingRunnables, _pendingRunnableMutex, epoll, pipe,
                    now, closed, connQuota, taskQuota, serveQuota, backlog,
                    bytesReceived, destroyed, rpc, dpc, serves, runnable,
                    toRemove, ready, toBeDeleted, closing, enq, ran, ranOn,
                    phase, drainMark, scanNow, steps, everRegistered,
                    allocated, exitedLoop, handled, modResult, fatal >>

\* terminate(), lines 119-122: the wake-up write.
TerminateEnd(t) ==
    /\ tpc[t] = "terminate"
    /\ pipe' = WriteWake(pipe)
    /\ tpc' = [tpc EXCEPT ![t] = "idle"]
    /\ UNCHANGED << _listenSock, _epollFd, _pipes,
                    _lameConnectionTimeoutSeconds, _terminate, _threadId,
                    _connections, _pendingRunnables, _pendingRunnableMutex,
                    epoll, now, closed, connQuota, taskQuota, serveQuota,
                    backlog, bytesReceived, destroyed, rpc, dpc, serves,
                    terminateCalls, runnable, toRemove, ready, toBeDeleted,
                    closing, enq, ran, ranOn, phase, drainMark, scanNow,
                    steps, everRegistered, allocated, exitedLoop,
                    terminatedIn, handled, modResult, fatal >>

\* setLameConnectionTimeoutSeconds(), lines 411-414 (an API for before serve()).
SetLameConnectionTimeoutSeconds(seconds) ==
    /\ ~Gone /\ serves = 0 /\ AllIdle
    /\ _lameConnectionTimeoutSeconds = DefaultLameConnectionTimeoutSeconds
    /\ _lameConnectionTimeoutSeconds' = seconds
    /\ UNCHANGED << _listenSock, _epollFd, _pipes, _terminate, _threadId,
                    _connections, _pendingRunnables, _pendingRunnableMutex,
                    epoll, pipe, now, closed, connQuota, taskQuota,
                    serveQuota, backlog, bytesReceived, destroyed, tpc, rpc,
                    dpc, serves, terminateCalls, runnable, toRemove, ready,
                    toBeDeleted, closing, enq, ran, ranOn, phase, drainMark,
                    scanNow, steps, everRegistered, allocated, exitedLoop,
                    terminatedIn, handled, modResult, fatal >>

\* ------------------------------------------------------- ~Server(), 76-94
\* The host destroys the server from thread t once no thread is inside it.
DestroyBegin(t) ==
    /\ AllIdle /\ ~Gone
    /\ tpc' = [tpc EXCEPT ![t] = "destroy"]
    /\ dpc' = "connections"
    /\ UNCHANGED << _listenSock, _epollFd, _pipes,
                    _lameConnectionTimeoutSeconds, _terminate, _threadId,
                    _connections, _pendingRunnables, _pendingRunnableMutex,
                    epoll, pipe, now, closed, connQuota, taskQuota,
                    serveQuota, backlog, bytesReceived, destroyed, rpc,
                    serves, terminateCalls, runnable, toRemove, ready,
                    toBeDeleted, closing, enq, ran, ranOn, phase, drainMark,
                    scanNow, steps, everRegistered, allocated, exitedLoop,
                    terminatedIn, handled, modResult, fatal >>

\* The test of the while loop of line 78.
ConnectionsLeft == DOMAIN _connections # {}

\* lines 78-81: delete _connections.begin()->first until the registry is empty.  The
\* delete reaches checkThread() through remove(); on another thread than serve()'s it
\* throws out of the destructor.
DestroyConnections(t, delOk) ==
    /\ tpc[t] = "destroy" /\ dpc = "connections" /\ closing = 0
    /\ IF ConnectionsLeft
       THEN \E c \in DOMAIN _connections :
            IF CheckThread(t)
            THEN /\ Remove(c, t, delOk)
                 /\ UNCHANGED << tpc, dpc >>
            ELSE /\ delOk
                 /\ tpc' = [tpc EXCEPT ![t] = "crashed"]
                 /\ dpc' = "crashed"
                 /\ UNCHANGED << _connections, epoll, closing >>
       ELSE /\ delOk
            /\ dpc' = "close"
            /\ UNCHANGED << tpc, _connections, epoll, closing >>
    /\ UNCHANGED << _listenSock, _epollFd, _pipes,
                    _lameConnectionTimeoutSeconds, _terminate, _threadId,
                    _pendingRunnables, _pendingRunnableMutex, pipe, now,
                    closed, connQuota, taskQuota, serveQuota, backlog,
                    bytesReceived, destroyed, rpc, serves, terminateCalls,
                    runnable, toRemove, ready, toBeDeleted, enq, ran, ranOn,
                    phase, drainMark, scanNow, steps, everRegistered,
                    allocated, exitedLoop, terminatedIn, handled, modResult,
                    fatal >>

\* lines 82-93: close the listening socket, both pipe ends and the epoll descriptor.
DestroyClose(t) ==
    /\ tpc[t] = "destroy" /\ dpc = "close"
    /\ closed' = (IF _listenSock # -1 THEN {"listenSock"} ELSE {})
                 \cup (IF _pipes[1] # -1 THEN {"pipes0"} ELSE {})
                 \cup (IF _pipes[2] # -1 THEN {"pipes1"} ELSE {})
                 \cup (IF _epollFd # -1 THEN {"epollFd"} ELSE {})
    /\ dpc' = "done"
    /\ tpc' = [tpc EXCEPT ![t] = "idle"]
    /\ UNCHANGED << _listenSock, _epollFd, _pipes,
                    _lameConnectionTimeoutSeconds, _terminate, _threadId,
                    _connections, _pendingRunnables, _pendingRunnableMutex,
                    epoll, pipe, now, connQuota, taskQuota, serveQuota,
                    backlog, bytesReceived, destroyed, rpc, serves,
                    terminateCalls, runnable, toRemove, ready, toBeDeleted,
                    closing, enq, ran, ranOn, phase, drainMark, scanNow,
                    steps, everRegistered, allocated, exitedLoop,
                    terminatedIn, handled, modResult, fatal >>

\* --------------------------------------------------------- specifications
\* Every operation of the reactor and its host but the two subscription calls, on the
\* small workload of Init.
ReactorStep ==
    \/ LoopCondition
    \/ PopNextRunnable
    \/ \E reschedules \in BOOLEAN : RunRunnable(reschedules)
    \/ \E clock \in 0..MaxTime : LameScan(clock)
    \/ \E delOk \in BOOLEAN : LameReap(delOk)
    \/ \E result \in {"events", "EINTR", "error"} : EpollWait(result)
    \/ \E mask \in EventMasks, result \in AcceptResults, clock \in 0..MaxTime,
          pend \in 0..MaxConns : RouteListen(mask, result, clock, pend)
    \/ \E mask \in EventMasks, errno \in {EAGAIN, EIO}, left \in 0..PipeCapacity :
          RouteWake(mask, errno, left)
    \/ \E c \in Conns, mask \in EventMasks, got \in 0..1 : RouteConnection(c, mask, got)
    \/ RouteDone
    \/ \E delOk \in BOOLEAN : DeleteQueued(delOk)
    \/ CloseConnection

HostStep ==
    \/ \E t \in ServeThreads, failAt \in 1..NoFailure : Serve(t, failAt)
    \/ \E t \in Threads : ScheduleBegin(t)
    \/ \E t \in Threads : ScheduleEnd(t)
    \/ \E t \in Threads : TerminateBegin(t)
    \/ \E t \in Threads : TerminateEnd(t)
    \/ \E seconds \in LameTimeouts : SetLameConnectionTimeoutSeconds(seconds)
    \/ \E t \in Threads : DestroyBegin(t)
    \/ \E t \in Threads, delOk \in BOOLEAN : DestroyConnections(t, delOk)
    \/ \E t \in Threads : DestroyClose(t)

Next == ReactorStep \/ HostStep

Spec == Init /\ [][Next]_vars

\* The task queue under load: no peer connects (accept finds nothing to accept), the
\* clock stands still and the lame timeout keeps its default.
QueueReactorStep ==
    \/ LoopCondition
    \/ PopNextRunnable
    \/ \E reschedules \in BOOLEAN : RunRunnable(reschedules)
    \/ LameScan(now)
    \/ LameReap(TRUE)
    \/ \E result \in {"events", "EINTR", "error"} : EpollWait(result)
    \/ \E mask \in EventMasks : RouteListen(mask, "accept_failed", now, 0)
    \/ \E mask \in EventMasks, errno \in {EAGAIN, EIO}, left \in 0..PipeCapacity :
          RouteWake(mask, errno, left)
    \/ RouteDone
    \/ DeleteQueued(TRUE)

QueueHostStep ==
    \/ \E t \in ServeThreads, failAt \in 1..NoFailure : Serve(t, failAt)
    \/ \E t \in Threads : ScheduleBegin(t)
    \/ \E t \in Threads : ScheduleEnd(t)
    \/ \E t \in Threads : TerminateBegin(t)
    \/ \E t \in Threads : TerminateEnd(t)
    \/ \E t \in Threads : DestroyBegin(t)
    \/ \E t \in Threads : DestroyConnections(t, TRUE)
    \/ \E t \in Threads : DestroyClose(t)

NextQueue == QueueReactorStep \/ QueueHostStep

SpecQueue == InitQueue /\ [][NextQueue]_vars

\* The connections under load: no task is scheduled.
ConnReactorStep ==
    \/ LoopCondition
    \/ PopNextRunnable
    \/ \E clock \in 0..MaxTime : LameScan(clock)
    \/ \E delOk \in BOOLEAN : LameReap(delOk)
    \/ \E result \in {"events", "EINTR", "error"} : EpollWait(result)
    \/ \E mask \in EventMasks, result \in AcceptResults, clock \in 0..MaxTime,
          pend \in 0..MaxConns : RouteListen(mask, result, clock, pend)
    \/ \E mask \in EventMasks, errno \in {EAGAIN, EIO}, left \in 0..PipeCapacity :
          RouteWake(mask, errno, left)
    \/ \E c \in Conns, mask \in EventMasks, got \in 0..1 : RouteConnection(c, mask, got)
    \/ RouteDone
    \/ \E delOk \in BOOLEAN : DeleteQueued(delOk)
    \/ CloseConnection

ConnHostStep ==
    \/ \E t \in ServeThreads, failAt \in 1..NoFailure : Serve(t, failAt)
    \/ \E t \in Threads : TerminateBegin(t)
    \/ \E t \in Threads : TerminateEnd(t)
    \/ \E seconds \in LameTimeouts : SetLameConnectionTimeoutSeconds(seconds)
    \/ \E t \in Threads : DestroyBegin(t)
    \/ \E t \in Threads, delOk \in BOOLEAN : DestroyConnections(t, delOk)
    \/ \E t \in Threads : DestroyClose(t)

NextConn == ConnReactorStep \/ ConnHostStep

SpecConn == InitConn /\ [][NextConn]_vars


\* serve() called again after it returned, and connections subscribed to write events:
\* every call succeeds but epoll_wait and EPOLL_CTL_MOD, the clock stands still and the
\* lame timeout keeps its default.
RestartReactorStep ==
    \/ LoopCondition
    \/ PopNextRunnable
    \/ RunRunnable(FALSE)
    \/ LameScan(now)
    \/ LameReap(TRUE)
    \/ \E result \in {"events", "EINTR", "error"} : EpollWait(result)
    \/ \E mask \in EventMasks, result \in {"accept_failed", "accepted"}, pend \in 0..MaxConns :
          RouteListen(mask, result, now, pend)
    \/ \E mask \in EventMasks : RouteWake(mask, EAGAIN, 0)
    \/ \E c \in Conns, mask \in EventMasks, got \in 0..1 : RouteConnection(c, mask, got)
    \/ RouteDone
    \/ DeleteQueued(TRUE)
    \/ CloseConnection

RestartHostStep ==
    \/ \E t \in ServeThreads : Serve(t, NoFailure)
    \/ \E t \in Threads : ScheduleBegin(t)
    \/ \E t \in Threads : ScheduleEnd(t)
    \/ \E t \in Threads : TerminateBegin(t)
    \/ \E t \in Threads : TerminateEnd(t)
    \/ \E t \in Threads : DestroyBegin(t)
    \/ \E t \in Threads : DestroyConnections(t, TRUE)
    \/ \E t \in Threads : DestroyClose(t)

\* Calls of the two subscription functions, from the reactor or from another thread.
SubscriberStep ==
    \/ \E t \in Threads, c \in Conns, modOk \in BOOLEAN : SubscribeToWriteEvents(t, c, modOk)
    \/ \E t \in Threads, c \in Conns, modOk \in BOOLEAN : UnsubscribeFromWriteEvents(t, c, modOk)

NextRestart == RestartReactorStep \/ RestartHostStep \/ SubscriberStep

SpecRestart == InitRestart /\ [][NextRestart]_vars

\* The reactor keeps running (epoll_wait returns after its timeout at the latest), and
\* a thread inside schedule() or terminate() finishes the call.
QueueFairness ==
    /\ WF_vars(QueueReactorStep)
    /\ \A t \in Threads : WF_vars(ScheduleEnd(t)) /\ WF_vars(TerminateEnd(t))

FairSpecQueue == SpecQueue /\ QueueFairness

\* A thread inside ~Server finishes it (unless checkThread() throws), and a delete
\* that has called remove() goes on to close the descriptor.
ConnFairness ==
    /\ WF_vars(CloseConnection)
    /\ \A t \in Threads : WF_vars(\E delOk \in BOOLEAN : DestroyConnections(t, delOk))
    /\ \A t \in Threads : WF_vars(DestroyClose(t))

FairSpecConn == SpecConn /\ ConnFairness

\* ------------------------------------------------------------------ claims
IsPrefix(s, t) == Len(s) <= Len(t) /\ s = SubSeq(t, 1, Len(s))

\* C1, safety: no Connection is ever deleted twice, a connection is in the registry
\* only while it is not destroyed, it leaves the registry only by being deleted, and
\* when ~Server has finished every inserted connection has been destroyed once.
C1_NeverTwiceNoneLeft ==
    /\ \A c \in Conns : destroyed[c] <= 1
    /\ \A c \in DOMAIN _connections : c \in everRegistered /\ destroyed[c] = 0
    /\ \A c \in everRegistered \ DOMAIN _connections : destroyed[c] = 1 \/ closing = c
    /\ dpc = "done" => \A c \in everRegistered : destroyed[c] = 1

C2_RegistryIffPoller ==
    \A c \in Conns : (c \in DOMAIN _connections) <=> (c \in DOMAIN epoll)

\* C3: the tasks the reactor has run are a prefix of the tasks in the order they were
\* appended: FIFO, none run twice, none skipped.
C3_RunInEnqueueOrder == IsPrefix(ran, enq)

\* The reactor is running one task while a producer is inside schedule(), after every
\* task has been appended.
C3_Witness ==
    /\ rpc = "run" /\ Len(ran) >= 1 /\ taskQuota = 0
    /\ \E t \in Threads : tpc[t] = "schedule"

\* C4 as claimed: once serve() has left its loop on the terminate flag, every task
\* scheduled before it returned has been run.
C4_EveryTaskRuns ==
    (rpc = "returned" /\ exitedLoop) =>
        \A k \in Tasks : phase[k] \in {"before", "serving", "terminating"} => ranOn[k] # 0

\* C4 amended: a task runs only on the reactor thread, and a task appended to the queue
\* is eventually run unless serve() is not, or no longer, in its loop.
C4_RunsUnlessServeReturns ==
    /\ [](\A k \in Tasks : ranOn[k] # 0 => ranOn[k] = _threadId)
    /\ \A k \in Tasks :
         (phase[k] # "unscheduled" /\ Serving) ~> (ranOn[k] # 0 \/ ~Serving)

\* A task appended before serve() and one appended while it serves have both run.
C4_Witness ==
    \E j, k \in Tasks : /\ phase[j] = "before" /\ phase[k] = "serving"
                        /\ ranOn[j] # 0 /\ ranOn[k] # 0

\* C5: when the reactor enters epoll_wait, every task appended before this iteration's
\* drain began has been run.
C5_DrainedBeforePoll ==
    rpc = "poll" => \A k \in 1..drainMark : ranOn[k] # 0

\* The reactor enters epoll_wait after a drain that began with every task queued.
C5_Witness == rpc = "poll" /\ drainMark = MaxTasks

\* C6: terminate() sets the flag, which is never cleared, and writes the wake-up
\* signal; if it is called while serve() is in its loop, serve() returns; once the
\* loop condition has observed the flag there is no further epoll_wait.
C6_TerminateStopsServe ==
    /\ [](terminateCalls > 0 => _terminate)
    /\ [][\A t \in Threads : (tpc[t] = "terminate" /\ tpc'[t] = "idle" /\ _pipes[2] # -1)
                                => pipe' > 0]_vars
    /\ [][exitedLoop => rpc' # "poll"]_vars
    /\ (terminatedIn = "serving" /\ Serving) ~> ~Serving

\* terminate() was called while serve() was in its loop, and serve() has returned on
\* the flag.
C6_Witness == terminatedIn = "serving" /\ rpc = "returned" /\ exitedLoop

C8_LameReaped ==
    rpc = "poll" =>
        \A c \in DOMAIN _connections :
            ~(bytesReceived[c] = 0 /\ scanNow - _connections[c] >= _lameConnectionTimeoutSeconds)

\* The reap is deleting a connection under a timeout of 1 second set by the host.
C8_Witness ==
    rpc = "reap" /\ closing # 0 /\ _lameConnectionTimeoutSeconds = 1 /\ scanNow >= 1

\* C9: every connection the lame reap deletes has 0 bytes received and an age of at
\* least the timeout.
C9_ReapsOnlyLame ==
    [][\A c \in Conns :
          (rpc = "reap" /\ closing = 0 /\ closing' = c) =>
              /\ bytesReceived[c] = 0
              /\ scanNow - _connections[c] >= _lameConnectionTimeoutSeconds]_vars

\* A connection that has received a byte, and whose age has reached the timeout, is
\* still registered after the scan.
C9_Witness ==
    /\ rpc = "poll"
    /\ \E c \in DOMAIN _connections :
          bytesReceived[c] > 0 /\ scanNow - _connections[c] >= _lameConnectionTimeoutSeconds

\* C10 as claimed: drain, poll, route, lame scan, destroy.
ClaimedOrder == << "drain", "poll", "route", "lame", "destroy" >>
C10_ClaimedOrder == IsPrefix(steps, ClaimedOrder)

\* C10 amended: each iteration drains the task queue, scans for lame connections (the
\* scan is due on every iteration), polls, routes the events and destroys the
\* connections queued for deletion, in this order.
CodeOrder == << "drain", "lame", "poll", "route", "destroy" >>
C10_CodeOrder == IsPrefix(steps, CodeOrder)

\* An iteration has done all five steps: a task has run and the connection queued by
\* this iteration's event is being deleted.
C10_Witness == steps = CodeOrder /\ rpc = "delete" /\ closing # 0 /\ Len(ran) > 0


\* C11 as claimed: every call that changes the registry or a poller subscription checks
\* the calling thread against the owner recorded by serve(), and a call from any other
\* thread leaves the registry and the poller registrations unchanged.
C11_OwnerThreadOnly ==
    [][\A t \in Threads, c \in Conns, modOk \in BOOLEAN :
          (/\ t # _threadId
           /\ \/ SubscribeToWriteEvents(t, c, modOk)
              \/ UnsubscribeFromWriteEvents(t, c, modOk))
          => UNCHANGED << epoll, _connections >>]_vars

\* C12: when a start-up call of serve() fails, serve() returns without entering its
\* loop: the calling thread never becomes the reactor, and until serve() is called
\* again no task is run, no poll wait is made and no connection is accepted.
C12_StartupFailureReturns ==
    /\ [][\A t \in Threads, failAt \in 1..Len(StartupCalls) :
             Serve(t, failAt) =>
                 /\ rpc' = "returned"
                 /\ \A u \in Threads : tpc'[u] # "serve"
                 /\ UNCHANGED << ran, steps, ready, allocated, _connections >>]_vars
    /\ [][(rpc = "returned" /\ rpc' = "returned") =>
             UNCHANGED << ran, steps, ready, allocated, _connections >>]_vars

\* serve() has returned from a start-up whose last call failed (the poller exists, the
\* wake-up pipe is not registered with it), and the task scheduled earlier is still queued.
C12_Witness ==
    /\ serves = 1 /\ rpc = "returned" /\ dpc = "alive"
    /\ _epollFd = 1 /\ WakeToken \notin DOMAIN epoll
    /\ ran = << >> /\ _pendingRunnables # << >>

C14_WriterBeforeReader ==
    [][\A c \in Conns, got \in 0..1 :
          /\ RouteConnection(c, {EPOLLIN, EPOLLOUT}, got) => handled' = << "write", "read" >>
          /\ RouteConnection(c, {EPOLLOUT}, got) => handled' = << "write" >>
          /\ RouteConnection(c, {EPOLLIN}, got) => handled' = << "read" >>]_vars

\* An event has driven both sides of a connection subscribed to write events.
C14_Witness ==
    /\ rpc = "route" /\ handled = << "write", "read" >>
    /\ \E c \in DOMAIN _connections : c \in DOMAIN epoll /\ epoll[c] = {EPOLLIN, EPOLLOUT}

C16_AcceptsUntilWouldBlock == backlog = 0

\* C16 amended: one readable event on the listening socket makes one accept() call: at
\* most one pending connection is accepted and the others stay pending; the accepted
\* handle is registered for readable events and inserted into the registry with the
\* current time, unless configuring or registering it fails, and then it is not inserted.
C16_OneAcceptPerEvent ==
    [][\A result \in AcceptResults, clock \in ClockValues, pend \in 0..MaxConns :
          RouteListen({EPOLLIN}, result, clock, pend) =>
              /\ allocated' <= allocated + 1
              /\ backlog' = (IF pend > 0 THEN pend - 1 ELSE 0)
              /\ Cardinality(DOMAIN _connections' \ DOMAIN _connections) <= 1
              /\ \A c \in DOMAIN _connections' \ DOMAIN _connections :
                    /\ c \in DOMAIN epoll' /\ epoll'[c] = {EPOLLIN}
                    /\ _connections'[c] = clock
              /\ (result = "accepted" /\ pend > 0) => allocated' \in DOMAIN _connections'
              /\ result # "accepted" => DOMAIN _connections' = DOMAIN _connections]_vars

\* One of two pending connections has been accepted, registered for readable events and
\* inserted; the other is still pending when the event has been routed.
C16_Witness ==
    /\ rpc = "route" /\ backlog = 1
    /\ allocated \in DOMAIN _connections
    /\ allocated \in DOMAIN epoll /\ epoll[allocated] = {EPOLLIN}

\* C17: no wake-up is lost: whenever the reactor is at its poll wait with a task in the
\* queue, the wake-up pipe holds an unread signal or a producer is still inside
\* schedule(), between its push_back and its write to the pipe.
C17_NoLostWakeup ==
    (rpc = "poll" /\ _pendingRunnables # << >>) =>
        (pipe > 0 \/ \E t \in Threads : tpc[t] = "schedule")

\* The reactor is at its poll wait, a task scheduled since its drain is queued, its
\* producer has left schedule(), and the signal is in the pipe.
C17_Witness ==
    /\ rpc = "poll" /\ _pendingRunnables # << >>
    /\ \A t \in Threads : tpc[t] # "schedule"
    /\ pipe > 0

\* C18: the task-queue mutex is held only by a thread inside schedule(), never by the
\* reactor while it runs a task; a task scheduled by a running task has been run when
\* the drain that ran its scheduler ends, and the drain ends only on an empty queue.
C18_MutexFreeWhileRunning ==
    /\ [](rpc = "run" => _pendingRunnableMutex # _threadId)
    /\ [](_pendingRunnableMutex # 0 => tpc[_pendingRunnableMutex] = "schedule")
    /\ [](rpc \notin {"pop", "run"} =>
             \A k \in 1..Len(enq) :
                 phase[k] = "drain" => \E i \in 1..Len(ran) : ran[i] = k)
    /\ [][(rpc = "pop" /\ rpc' \notin {"pop", "run"}) => _pendingRunnables = << >>]_vars

\* The reactor has reached its poll wait after a drain in which a task scheduled
\* another task, and that task has been run too.
C18_Witness ==
    /\ rpc = "poll"
    /\ \E k \in 1..Len(enq) : phase[k] = "drain" /\ \E i \in 1..Len(ran) : ran[i] = k

\* C19: the terminate flag, once set, stays set; a serve() that is called with the flag
\* set performs its start-up and then leaves at the loop condition: from the call to
\* the return no task is run, no poll wait is made, no connection is accepted, and the
\* tasks in the queue stay there.
C19_TerminateIsPermanent ==
    /\ [][_terminate => _terminate']_vars
    /\ [][\A t \in Threads :
             (_terminate /\ Serve(t, NoFailure)) =>
                 /\ rpc' = "loop"
                 /\ _epollFd' = 1 /\ _pipes' = << 1, 1 >>
                 /\ DOMAIN epoll' = {ListenToken, WakeToken}]_vars
    /\ [][(_terminate /\ rpc \in {"none", "loop", "returned"}) =>
             /\ rpc' \in {"none", "loop", "returned"}
             /\ UNCHANGED << ran, allocated >>
             /\ steps' \in {steps, << >>}
             /\ IsPrefix(_pendingRunnables, _pendingRunnables')]_vars

\* serve() was called a second time after a terminate() and has returned again; a task
\* scheduled between the two calls (the pipe the second call created has no signal, and
\* nobody is inside schedule()) is still in the queue and has not run.
C19_Witness ==
    /\ serves = 2 /\ rpc = "returned" /\ _terminate /\ dpc = "alive"
    /\ terminatedIn \in {"serving", "after"}
    /\ pipe = 0 /\ \A t \in Threads : tpc[t] = "idle"
    /\ \E i \in 1..Len(_pendingRunnables) :
          /\ phase[_pendingRunnables[i]] = "after"
          /\ \A j \in 1..Len(ran) : ran[j] # _pendingRunnables[i]

\* C20 as claimed: at all times from accept until removal, every connection in the
\* registry is registered with the poller the reactor waits on (the one _epollFd names)
\* and has readable in its mask.
C20_AlwaysReadable ==
    \A c \in DOMAIN _connections : c \in DOMAIN epoll /\ EPOLLIN \in epoll[c]
====
